---- MODULE Spec2Model ----
(***************************************************************************)
(* Winnipeg mortgage calculator: the shared calculation module             *)
(* (MortgageCalculationSchema, winnipegData, calculateCMHCInsurance,       *)
(* getAffordabilityRating, calculateMortgage), the MortgageCalculator      *)
(* form component in its two versions (calling calculateMortgage directly, *)
(* and fetching from the API), the DonutChart total and the routes of      *)
(* server.ts.                                                              *)
(*                                                                         *)
(* JavaScript numbers are IEEE-754 doubles.  They are modelled as decimal  *)
(* floating-point values with an eight-digit mantissa, rounded to nearest  *)
(* (ties to even) after every operation, together with the three special   *)
(* values NaN, Infinity and -Infinity, which follow the IEEE rules.        *)
(* Results beyond the range of a double overflow to an infinity or         *)
(* underflow to zero.  Negative zero is not distinguished from zero.       *)
(***************************************************************************)
EXTENDS Integers, Sequences, FiniteSets, TLC

(***************************************************************************)
(* number: representation                                                  *)
(***************************************************************************)
\* mantissas m satisfy MantMin <= |m| < MantLim, or m = 0 (with e = 0)
MantLim == 10^8
MantMin == 10^7
SplitBase == 10^4

NaN == [k |-> "nan", m |-> 0, e |-> 0]
PosInf == [k |-> "inf", m |-> 0, e |-> 0]
NegInf == [k |-> "ninf", m |-> 0, e |-> 0]
Zero == [k |-> "fin", m |-> 0, e |-> 0]

Abs(i) == IF i < 0 THEN -i ELSE i

Sgn(i) == IF i < 0 THEN -1 ELSE IF i = 0 THEN 0 ELSE 1

RECURSIVE Pow10(_)
Pow10(k) == IF k <= 0 THEN 1 ELSE 10 * Pow10(k - 1)

\* a \div d rounded to nearest, ties to even (a >= 0, d > 0, 2 * d within range)
RoundDiv(a, d) ==
    LET q == a \div d
        r == a % d
    IN  IF 2 * r > d \/ (2 * r = d /\ q % 2 = 1) THEN q + 1 ELSE q

RECURSIVE NumDigits(_)
NumDigits(a) == IF a < 10 THEN 1 ELSE 1 + NumDigits(a \div 10)

\* the range of a double: magnitudes above Number.MAX_VALUE
\* (1.7976931e308) overflow to +-Infinity, magnitudes below half of
\* Number.MIN_VALUE (2.4703282e-324) underflow to 0
MaxExp == 301
MaxMant == 17976931
MinExp == -331
MinMant == 24703282

\* x brought into the range of a double
Ranged(x) ==
    IF x.e > MaxExp \/ (x.e = MaxExp /\ Abs(x.m) > MaxMant)
    THEN (IF x.m < 0 THEN [k |-> "ninf", m |-> 0, e |-> 0]
          ELSE [k |-> "inf", m |-> 0, e |-> 0])
    ELSE IF x.e < MinExp \/ (x.e = MinExp /\ Abs(x.m) < MinMant)
    THEN [k |-> "fin", m |-> 0, e |-> 0]
    ELSE x

\* the operand is evaluated once
InRange(x) == CHOOSE r \in {Ranged(v) : v \in {x}} : TRUE

\* a * 10^e (a > 0, a < 2^31) with sign s, rounded to eight significant digits
Rounded(s, a, e) ==
    LET d == NumDigits(a)
    IN  IF d <= 8
        THEN [k |-> "fin", m |-> s * a * Pow10(8 - d), e |-> e - (8 - d)]
        ELSE LET q == RoundDiv(a, Pow10(d - 8))
             IN  IF q = MantLim
                 THEN [k |-> "fin", m |-> s * MantMin, e |-> e + (d - 8) + 1]
                 ELSE [k |-> "fin", m |-> s * q, e |-> e + (d - 8)]

\* the number m * 10^e rounded to eight significant digits (|m| < 2^31) and
\* brought into the range of a double
Norm(m, e) ==
    IF m = 0 THEN Zero ELSE InRange(Rounded(Sgn(m), Abs(m), e))

\* an integer literal, and a decimal literal i / 10^p
Int2Num(i) == Norm(i, 0)
Dec(i, p) == Norm(i, -p)

IsFinite(x) == x.k = "fin"
IsNaN(x) == x.k = "nan"

\* sign of a number that is not NaN
Sign(x) ==
    CASE x.k = "fin" -> Sgn(x.m)
      [] x.k = "inf" -> 1
      [] x.k = "ninf" -> -1
      [] OTHER -> 0

Neg(x) ==
    CASE x.k = "fin" -> [x EXCEPT !.m = -x.m]
      [] x.k = "inf" -> NegInf
      [] x.k = "ninf" -> PosInf
      [] OTHER -> NaN

SignedInf(s) == IF s < 0 THEN NegInf ELSE PosInf

(***************************************************************************)
(* number: arithmetic (+, -, *, /, comparisons, Math.pow, Math.round)      *)
(***************************************************************************)
\* T + f / D (0 <= f < D, T >= 0) with sign s, in units of 10^e, rounded to
\* eight significant digits; T has at least seven digits unless D = 10
RoundFrac(T, f, D, e, s) ==
    IF T >= MantLim
    THEN LET q == T \div 10
             d == T % 10
             up == d > 5 \/ (d = 5 /\ (f > 0 \/ q % 2 = 1))
         IN  Norm(s * (IF up THEN q + 1 ELSE q), e + 1)
    ELSE IF T >= MantMin
    THEN LET up == 2 * f > D \/ (2 * f = D /\ T % 2 = 1)
         IN  Norm(s * (IF up THEN T + 1 ELSE T), e)
    ELSE LET D1 == D \div 10
             T1 == 10 * T + f \div D1
             f1 == f % D1
             up == 2 * f1 > D1 \/ (2 * f1 = D1 /\ T1 % 2 = 1)
         IN  Norm(s * (IF up THEN T1 + 1 ELSE T1), e - 1)

\* x + y for finite x, y: the operand with the smaller exponent is aligned to
\* the other (quotient q, remainder r) and the exact sum is rounded once
AddFin(x, y) ==
    IF x.m = 0 THEN y
    ELSE IF y.m = 0 THEN x
    ELSE LET hi == IF x.e >= y.e THEN x ELSE y
             lo == IF x.e >= y.e THEN y ELSE x
             diff == hi.e - lo.e
         IN  IF diff = 0 THEN Norm(hi.m + lo.m, hi.e)
             ELSE IF diff >= 10 THEN hi
             ELSE LET D == Pow10(diff)
                      A == Abs(hi.m)
                      q == Abs(lo.m) \div D
                      r == Abs(lo.m) % D
                      same == Sgn(hi.m) = Sgn(lo.m)
                      T == IF same THEN A + q
                           ELSE IF r = 0 THEN A - q ELSE A - q - 1
                      f == IF same \/ r = 0 THEN r ELSE D - r
                  IN  RoundFrac(T, f, D, hi.e, Sgn(hi.m))

Add(x, y) ==
    CASE IsNaN(x) \/ IsNaN(y) -> NaN
      [] IsFinite(x) /\ IsFinite(y) -> AddFin(x, y)
      [] IsFinite(x) -> y
      [] IsFinite(y) -> x
      [] OTHER -> IF x.k = y.k THEN x ELSE NaN

Sub(x, y) == Add(x, Neg(y))

\* x * y for finite non-zero x, y: the sixteen-digit product of the mantissas
\* is formed in two halves hi * 10^8 + lo and rounded to eight digits
MulFin(x, y) ==
    LET a == Abs(x.m)
        b == Abs(y.m)
        s == Sgn(x.m) * Sgn(y.m)
        a1 == a \div SplitBase
        a0 == a % SplitBase
        b1 == b \div SplitBase
        b0 == b % SplitBase
        mid == a1 * b0 + a0 * b1
        lowSum == (mid % SplitBase) * SplitBase + a0 * b0
        hi == a1 * b1 + mid \div SplitBase + lowSum \div MantLim
        lo == lowSum % MantLim
        e == x.e + y.e
    IN  IF hi >= MantMin
        THEN LET q == IF 2 * lo > MantLim \/ (2 * lo = MantLim /\ hi % 2 = 1)
                      THEN hi + 1 ELSE hi
             IN  Norm(s * q, e + 8)
        ELSE LET h == hi * 10 + lo \div MantMin
                 r == lo % MantMin
                 q == IF 2 * r > MantMin \/ (2 * r = MantMin /\ h % 2 = 1)
                      THEN h + 1 ELSE h
             IN  Norm(s * q, e + 7)

Mul(x, y) ==
    CASE IsNaN(x) \/ IsNaN(y) -> NaN
      [] IsFinite(x) /\ IsFinite(y) ->
             IF x.m = 0 \/ y.m = 0 THEN Zero ELSE MulFin(x, y)
      [] OTHER -> IF Sign(x) = 0 \/ Sign(y) = 0 THEN NaN
                  ELSE SignedInf(Sign(x) * Sign(y))

\* long division: q holds the digits produced so far, r the remainder, k the
\* number of digits still to produce; the last step rounds on the remainder
RECURSIVE LongDiv(_, _, _, _)
LongDiv(q, r, b, k) ==
    IF k = 0
    THEN IF 2 * r > b \/ (2 * r = b /\ q % 2 = 1) THEN q + 1 ELSE q
    ELSE LongDiv(q * 10 + (r * 10) \div b, (r * 10) % b, b, k - 1)

\* x / y for finite non-zero x, y
DivFin(x, y) ==
    LET a == Abs(x.m)
        b == Abs(y.m)
        s == Sgn(x.m) * Sgn(y.m)
        k == IF a >= b THEN 7 ELSE 8
    IN  Norm(s * LongDiv(a \div b, a % b, b, k), x.e - y.e - k)

Div(x, y) ==
    CASE IsNaN(x) \/ IsNaN(y) -> NaN
      [] IsFinite(x) /\ IsFinite(y) ->
             IF y.m = 0
             THEN IF x.m = 0 THEN NaN ELSE SignedInf(Sgn(x.m))
             ELSE IF x.m = 0 THEN Zero ELSE DivFin(x, y)
      [] IsFinite(x) -> Zero
      [] IsFinite(y) -> SignedInf(Sign(x) * (IF Sign(y) < 0 THEN -1 ELSE 1))
      [] OTHER -> NaN

\* -1, 0 or 1 as x is below, equal to or above y (neither is NaN)
Cmp(x, y) ==
    IF x = y THEN 0
    ELSE IF x.k = "inf" \/ y.k = "ninf" THEN 1
    ELSE IF x.k = "ninf" \/ y.k = "inf" THEN -1
    ELSE Sign(AddFin(x, Neg(y)))

\* the comparison operators: every comparison with NaN is false
Lt(x, y) == ~IsNaN(x) /\ ~IsNaN(y) /\ Cmp(x, y) < 0
Le(x, y) == ~IsNaN(x) /\ ~IsNaN(y) /\ Cmp(x, y) <= 0
Gt(x, y) == ~IsNaN(x) /\ ~IsNaN(y) /\ Cmp(x, y) > 0
Ge(x, y) == ~IsNaN(x) /\ ~IsNaN(y) /\ Cmp(x, y) >= 0

\* the integer value of a finite number that is an integer
ToInt(x) == IF x.e >= 0 THEN x.m * Pow10(x.e) ELSE x.m \div Pow10(-x.e)

IsInteger(x) ==
    IsFinite(x) /\ (x.e >= 0 \/ (x.e >= -7 /\ x.m % Pow10(-x.e) = 0))

\* Math.pow(x, n) for an integer n >= 0, by squaring
RECURSIVE PowNat(_, _)
PowNat(x, n) ==
    IF n = 0 THEN Int2Num(1)
    ELSE IF n % 2 = 0
         THEN LET h == PowNat(x, n \div 2) IN Mul(h, h)
         ELSE Mul(x, PowNat(x, n - 1))

\* faulty variant: ties go to the even neighbour
RoundTiesToEven(x) ==
    IF ~IsFinite(x) \/ x.e >= 0 THEN x
    ELSE IF x.e < -8 THEN Zero
    ELSE LET p == Pow10(-x.e)
             q == x.m \div p
             r == x.m % p
         IN  Int2Num(IF 2 * r > p \/ (2 * r = p /\ q % 2 = 1) THEN q + 1 ELSE q)

\* Math.round(x): the nearest integer, ties towards +Infinity
Round(x) ==
    IF ~IsFinite(x) \/ x.e >= 0 THEN x
    ELSE IF x.e < -8 THEN Zero
    ELSE LET p == Pow10(-x.e)
         IN  Int2Num((x.m + p \div 2) \div p)

\* faulty variant: amounts are reported in whole dollars
Round2ToDollars(x) == Round(x)

\* Math.round(x * 100) / 100
Round2(x) == Div(Round(Mul(x, Int2Num(100))), Int2Num(100))

\* parseInt and parseFloat of the text of a numeric input box: the text is
\* empty (or unparsable) or holds the number v; parseInt drops the fraction
Trunc(x) ==
    IF ~IsFinite(x) \/ x.e >= 0 THEN x
    ELSE IF x.e < -7 THEN Zero
    ELSE Int2Num(Sgn(x.m) * (Abs(x.m) \div Pow10(-x.e)))

ParseInt(text) == IF text.empty THEN NaN ELSE Trunc(text.v)

ParseFloat(text) == IF text.empty THEN NaN ELSE text.v

\* x || 0: NaN and 0 are falsy
OrZero(x) == IF IsNaN(x) \/ x = Zero THEN Zero ELSE x

(***************************************************************************)
(* shared/types: MortgageCalculationSchema                                 *)
(***************************************************************************)
PropertyTypes == {"single-family", "condo", "townhouse", "multi-family"}
HeatingTypes == {"gas", "electric", "oil", "geothermal"}

Issue(path, message) == [path |-> path, message |-> message]

\* the issues z.number() and its checks raise for one field, in check order
PropertyValueIssues(v) ==
    IF IsNaN(v) THEN <<Issue("propertyValue", "Expected number, received nan")>>
    ELSE IF Lt(v, Int2Num(1))
         THEN <<Issue("propertyValue", "Property value must be greater than 0")>>
         ELSE <<>>

DownPaymentIssues(v) ==
    IF IsNaN(v) THEN <<Issue("downPayment", "Expected number, received nan")>>
    ELSE IF Lt(v, Zero)
         THEN <<Issue("downPayment", "Down payment cannot be negative")>>
         ELSE <<>>

\* faulty variant: the lower bound 0.1 is excluded
InterestRateIssuesExclusive(v) ==
    IF IsNaN(v) THEN <<Issue("interestRate", "Expected number, received nan")>>
    ELSE (IF Le(v, Dec(1, 1))
          THEN <<Issue("interestRate", "Number must be greater than or equal to 0.1")>>
          ELSE <<>>)
         \o (IF Gt(v, Int2Num(20))
             THEN <<Issue("interestRate", "Interest rate must be between 0.1% and 20%")>>
             ELSE <<>>)

InterestRateIssues(v) ==
    IF IsNaN(v) THEN <<Issue("interestRate", "Expected number, received nan")>>
    ELSE (IF Lt(v, Dec(1, 1))
          THEN <<Issue("interestRate", "Number must be greater than or equal to 0.1")>>
          ELSE <<>>)
         \o (IF Gt(v, Int2Num(20))
             THEN <<Issue("interestRate", "Interest rate must be between 0.1% and 20%")>>
             ELSE <<>>)

AmortizationYearsIssues(v) ==
    IF IsNaN(v) THEN <<Issue("amortizationYears", "Expected number, received nan")>>
    ELSE (IF ~IsInteger(v)
          THEN <<Issue("amortizationYears", "Expected integer, received float")>>
          ELSE <<>>)
         \o (IF Lt(v, Int2Num(1))
             THEN <<Issue("amortizationYears", "Number must be greater than or equal to 1")>>
             ELSE <<>>)
         \o (IF Gt(v, Int2Num(35))
             THEN <<Issue("amortizationYears", "Amortization must be between 1 and 35 years")>>
             ELSE <<>>)

PropertyTypeIssues(v) ==
    IF v \in PropertyTypes THEN <<>>
    ELSE <<Issue("propertyType", "Invalid enum value")>>

HeatingTypeIssues(v) ==
    IF v \in HeatingTypes THEN <<>>
    ELSE <<Issue("heatingType", "Invalid enum value")>>

\* MortgageCalculationSchema.safeParse(data).error.issues, in key order
MortgageCalculationSchema(data) ==
    PropertyValueIssues(data.propertyValue)
    \o DownPaymentIssues(data.downPayment)
    \o InterestRateIssues(data.interestRate)
    \o AmortizationYearsIssues(data.amortizationYears)
    \o PropertyTypeIssues(data.propertyType)
    \o HeatingTypeIssues(data.heatingType)

(***************************************************************************)
(* shared/mortgageCalculator                                               *)
(***************************************************************************)
WinnipegDataInit ==
    [averagePropertyTaxRate |-> Dec(235, 2),
     averageInsuranceRate |-> Dec(3, 1),
     currentInterestRates |->
         [fixed1Year |-> Dec(524, 2), fixed5Year |-> Dec(484, 2), variable |-> Dec(595, 2)],
     utilityEstimates |->
         [gas |-> Int2Num(180), electric |-> Int2Num(120),
          oil |-> Int2Num(220), geothermal |-> Int2Num(80)]]

WarnCMHC == "Down payment less than 20% requires CMHC insurance"
WarnLenders == "Down payment less than 5% may not be accepted by all lenders"
WarnRate == "Interest rate appears higher than current market rates"

\* faulty variant: the tier boundaries are exclusive
PremiumRateExclusive(downPaymentPercent) ==
    IF Gt(downPaymentPercent, Int2Num(20)) THEN Zero
    ELSE IF Gt(downPaymentPercent, Int2Num(15)) THEN Dec(28, 1)
    ELSE IF Gt(downPaymentPercent, Int2Num(10)) THEN Dec(31, 1)
    ELSE IF Gt(downPaymentPercent, Int2Num(5)) THEN Int2Num(4)
    ELSE Dec(45, 1)

\* faulty variant: the rates of the 10% and 15% tiers are exchanged
PremiumRateSwapped(downPaymentPercent) ==
    IF Ge(downPaymentPercent, Int2Num(20)) THEN Zero
    ELSE IF Ge(downPaymentPercent, Int2Num(15)) THEN Dec(31, 1)
    ELSE IF Ge(downPaymentPercent, Int2Num(10)) THEN Dec(28, 1)
    ELSE IF Ge(downPaymentPercent, Int2Num(5)) THEN Int2Num(4)
    ELSE Dec(45, 1)

\* the premium rate chosen by calculateCMHCInsurance
PremiumRate(downPaymentPercent) ==
    IF Ge(downPaymentPercent, Int2Num(20)) THEN Zero
    ELSE IF Ge(downPaymentPercent, Int2Num(15)) THEN Dec(28, 1)
    ELSE IF Ge(downPaymentPercent, Int2Num(10)) THEN Dec(31, 1)
    ELSE IF Ge(downPaymentPercent, Int2Num(5)) THEN Int2Num(4)
    ELSE Dec(45, 1)

CalculateCMHCInsurance(propertyValue, downPayment) ==
    LET downPaymentPercent == Mul(Div(downPayment, propertyValue), Int2Num(100))
        premiumRate == PremiumRate(downPaymentPercent)
        mortgageAmount == Sub(propertyValue, downPayment)
    IN  IF Ge(downPaymentPercent, Int2Num(20)) THEN Zero
        ELSE Div(Mul(mortgageAmount, premiumRate), Int2Num(100))

\* faulty variant: the thresholds exclude their upper bound
GetAffordabilityRatingExclusive(totalMonthlyCost, assumedIncome) ==
    LET ratio == Mul(Div(totalMonthlyCost, assumedIncome), Int2Num(100))
    IN  IF Lt(ratio, Int2Num(28)) THEN "excellent"
        ELSE IF Lt(ratio, Int2Num(32)) THEN "good"
        ELSE IF Lt(ratio, Int2Num(39)) THEN "fair"
        ELSE "poor"

GetAffordabilityRating(totalMonthlyCost, assumedIncome) ==
    LET ratio == Mul(Div(totalMonthlyCost, assumedIncome), Int2Num(100))
    IN  IF Le(ratio, Int2Num(28)) THEN "excellent"
        ELSE IF Le(ratio, Int2Num(32)) THEN "good"
        ELSE IF Le(ratio, Int2Num(39)) THEN "fair"
        ELSE "poor"

\* Math.pow(base, exponent): the exponents calculateMortgage passes are
\* non-negative integers whenever amortizationYears is one; NaN otherwise
MathPow(base, exponent) ==
    IF IsNaN(base) \/ ~IsInteger(exponent) \/ Lt(exponent, Zero) THEN NaN
    ELSE IF ~IsFinite(base)
         THEN (IF exponent = Zero THEN Int2Num(1) ELSE base)
         ELSE PowNat(base, ToInt(exponent))

\* faulty variant: the lenders warning also fires at exactly 5% down
WarningsLendersInclusive(downPaymentPercent, interestRate, wd) ==
    (IF Lt(downPaymentPercent, Int2Num(20)) THEN <<WarnCMHC>> ELSE <<>>)
    \o (IF Le(downPaymentPercent, Int2Num(5)) THEN <<WarnLenders>> ELSE <<>>)
    \o (IF Gt(interestRate, Add(wd.currentInterestRates.fixed5Year, Int2Num(1)))
        THEN <<WarnRate>> ELSE <<>>)

\* faulty variant: the market-rate comparison is not strict
WarningsNotStrict(downPaymentPercent, interestRate, wd) ==
    (IF Lt(downPaymentPercent, Int2Num(20)) THEN <<WarnCMHC>> ELSE <<>>)
    \o (IF Lt(downPaymentPercent, Int2Num(5)) THEN <<WarnLenders>> ELSE <<>>)
    \o (IF Ge(interestRate, Add(wd.currentInterestRates.fixed5Year, Int2Num(1)))
        THEN <<WarnRate>> ELSE <<>>)

\* faulty variant: the lenders warning is pushed before the CMHC warning
WarningsLendersFirst(downPaymentPercent, interestRate, wd) ==
    (IF Lt(downPaymentPercent, Int2Num(5)) THEN <<WarnLenders>> ELSE <<>>)
    \o (IF Lt(downPaymentPercent, Int2Num(20)) THEN <<WarnCMHC>> ELSE <<>>)
    \o (IF Gt(interestRate, Add(wd.currentInterestRates.fixed5Year, Int2Num(1)))
        THEN <<WarnRate>> ELSE <<>>)

\* the warnings array after the three conditional pushes
Warnings(downPaymentPercent, interestRate, wd) ==
    (IF Lt(downPaymentPercent, Int2Num(20)) THEN <<WarnCMHC>> ELSE <<>>)
    \o (IF Lt(downPaymentPercent, Int2Num(5)) THEN <<WarnLenders>> ELSE <<>>)
    \o (IF Gt(interestRate, Add(wd.currentInterestRates.fixed5Year, Int2Num(1)))
        THEN <<WarnRate>> ELSE <<>>)

\* faulty variant: the premium is left out of the amount amortized
TotalLoanAmountUnfinanced(principalAmount, cmhcInsurance) == principalAmount

\* the amount amortized
TotalLoanAmount(principalAmount, cmhcInsurance) == Add(principalAmount, cmhcInsurance)

\* faulty variant: the annual rate is used as the monthly rate
MonthlyRateAnnual(interestRate) == Div(interestRate, Int2Num(100))

MonthlyRate(interestRate) == Div(Div(interestRate, Int2Num(100)), Int2Num(12))

NumPayments(amortizationYears) == Mul(amortizationYears, Int2Num(12))

\* the standard mortgage formula
MonthlyPayment(totalLoanAmount, monthlyRate, numPayments) ==
    LET growth == MathPow(Add(Int2Num(1), monthlyRate), numPayments)
    IN  Div(Mul(totalLoanAmount, Mul(monthlyRate, growth)),
            Sub(growth, Int2Num(1)))

TotalInterest(monthlyPayment, numPayments, totalLoanAmount) ==
    Sub(Mul(monthlyPayment, numPayments), totalLoanAmount)

\* faulty variant: the annual tax is not divided over the twelve months
MonthlyPropertyTaxAnnual(propertyValue, wd) ==
    Div(Mul(propertyValue, wd.averagePropertyTaxRate), Int2Num(100))

\* the Winnipeg-specific costs
MonthlyPropertyTax(propertyValue, wd) ==
    Div(Div(Mul(propertyValue, wd.averagePropertyTaxRate), Int2Num(100)), Int2Num(12))

MonthlyInsurance(propertyValue, wd) ==
    Div(Div(Mul(propertyValue, wd.averageInsuranceRate), Int2Num(100)), Int2Num(12))

\* winnipegData.utilityEstimates[heatingType]: undefined, and NaN in the sum,
\* for a key the table does not have
MonthlyUtilities(heatingType, wd) ==
    IF heatingType \in DOMAIN wd.utilityEstimates
    THEN wd.utilityEstimates[heatingType] ELSE NaN

TotalMonthlyCost(monthlyPayment, monthlyPropertyTax, monthlyInsurance, monthlyUtilities) ==
    Add(Add(Add(monthlyPayment, monthlyPropertyTax), monthlyInsurance),
        monthlyUtilities)

\* every local of calculateMortgage(data), with the result it returns, given
\* the module-level winnipegData wd
CalculateMortgageLocals(data, wd) ==
    LET principalAmount == Sub(data.propertyValue, data.downPayment)
        cmhcInsurance == CalculateCMHCInsurance(data.propertyValue, data.downPayment)
        totalLoanAmount == TotalLoanAmount(principalAmount, cmhcInsurance)
        monthlyRate == MonthlyRate(data.interestRate)
        numPayments == NumPayments(data.amortizationYears)
        monthlyPayment == MonthlyPayment(totalLoanAmount, monthlyRate, numPayments)
        totalInterest == TotalInterest(monthlyPayment, numPayments, totalLoanAmount)
        monthlyPropertyTax == MonthlyPropertyTax(data.propertyValue, wd)
        monthlyInsurance == MonthlyInsurance(data.propertyValue, wd)
        monthlyUtilities == MonthlyUtilities(data.heatingType, wd)
        totalMonthlyCost ==
            TotalMonthlyCost(monthlyPayment, monthlyPropertyTax, monthlyInsurance,
                             monthlyUtilities)
        downPaymentPercent == Mul(Div(data.downPayment, data.propertyValue), Int2Num(100))
        warnings == Warnings(downPaymentPercent, data.interestRate, wd)
        assumedMonthlyIncome == Div(totalMonthlyCost, Dec(32, 2))
        affordabilityRating == GetAffordabilityRating(totalMonthlyCost, assumedMonthlyIncome)
    IN  [principalAmount |-> principalAmount,
         cmhcInsurance |-> cmhcInsurance,
         totalLoanAmount |-> totalLoanAmount,
         monthlyRate |-> monthlyRate,
         numPayments |-> numPayments,
         monthlyPayment |-> monthlyPayment,
         totalInterest |-> totalInterest,
         monthlyPropertyTax |-> monthlyPropertyTax,
         monthlyInsurance |-> monthlyInsurance,
         monthlyUtilities |-> monthlyUtilities,
         totalMonthlyCost |-> totalMonthlyCost,
         downPaymentPercent |-> downPaymentPercent,
         assumedMonthlyIncome |-> assumedMonthlyIncome,
         result |->
             [monthlyPayment |-> Round2(monthlyPayment),
              principalAmount |-> Round2(principalAmount),
              totalInterest |-> Round2(totalInterest),
              monthlyPropertyTax |-> Round2(monthlyPropertyTax),
              monthlyInsurance |-> Round2(monthlyInsurance),
              monthlyUtilities |-> Round2(monthlyUtilities),
              totalMonthlyCost |-> Round2(totalMonthlyCost),
              downPaymentPercent |-> Round2(downPaymentPercent),
              cmhcInsurance |-> Round2(cmhcInsurance),
              affordabilityRating |-> affordabilityRating,
              warnings |-> warnings]]

\* faulty variant: first-time buyers are not charged the premium
CalculateMortgageFirstTimeRebate(data, wd) ==
    [CalculateMortgageLocals(data, wd).result EXCEPT
        !.cmhcInsurance = IF data.isFirstTimeBuyer THEN Zero ELSE @]

CalculateMortgage(data, wd) == CalculateMortgageLocals(data, wd).result

(***************************************************************************)
(* Bounds of the model and the inputs the environment draws from           *)
(***************************************************************************)
\* the user clicks the first MaxPreset quick-select pills
MaxPreset == 1

\* the text of a numeric input box
Empty == [empty |-> TRUE, v |-> Zero]
Text(v) == [empty |-> FALSE, v |-> v]

\* what the user types into the three input boxes
PropertyValueTexts == {Empty, Text(Dec(2750009, 1))}
DownPaymentTexts == {Empty, Text(Dec(275005, 1))}
InterestRateTexts == {Empty, Text(Dec(484, 2))}

\* the options the user picks in the three select boxes
AmortizationPicks == {Text(Int2Num(15))}
PropertyTypePicks == {"condo"}
HeatingTypePicks == {"electric"}

\* the quick-select pills
Presets ==
    <<[value |-> 275000, downPayment |-> 27500],
      [value |-> 375000, downPayment |-> 37500],
      [value |-> 475000, downPayment |-> 71250],
      [value |-> 575000, downPayment |-> 86250],
      [value |-> 675000, downPayment |-> 135000],
      [value |-> 875000, downPayment |-> 175000],
      [value |-> 1100000, downPayment |-> 220000]>>

\* raw JSON requests posted to the API: values at and on both sides of every
\* limit of the validator
RawPropertyValues == {Zero, Dec(5, 1), Int2Num(1), Int2Num(400000)}
RawDownPayments ==
    {Int2Num(-1), Zero, Int2Num(15000), Int2Num(19999), Int2Num(20000),
     Int2Num(40000), Int2Num(60000), Int2Num(79999), Int2Num(80000),
     Int2Num(400000), Int2Num(500000)}
RawInterestRates ==
    {Zero, Dec(9, 2), Dec(1, 1), Dec(484, 2), Dec(584, 2), Dec(585, 2),
     Int2Num(20), Dec(2001, 2)}
RawAmortizationYears ==
    {Zero, Int2Num(1), Dec(15, 1), Int2Num(25), Int2Num(35), Int2Num(36)}
RawPropertyTypes == {"single-family", "condo", "bungalow"}
RawHeatingTypes == {"gas", "electric", "oil", "geothermal", "coal"}
LimitDownPayments == {Int2Num(-1), Zero, Int2Num(500000)}

\* requests that exercise the calculation: property values of 1.125, 150,000,
\* 400,000 and 1e308 with every down payment above
CalcPropertyValues ==
    {Dec(1125, 3), Int2Num(150000), Int2Num(400000), Norm(1, 308)}
CalcInterestRates == {Dec(484, 2), Dec(584, 2), Dec(585, 2)}
CalcAmortizationYears == {Int2Num(25), Int2Num(35)}
CalcHeatingTypes == {"gas", "geothermal"}

\* arguments of direct calculateMortgage calls, and how many calls are made
MaxCalls == 3
CallInputs ==
    [propertyValue : {Int2Num(400000)},
     downPayment : {Int2Num(15000), Int2Num(20000), Int2Num(80000)},
     interestRate : {Dec(484, 2), Dec(585, 2)},
     amortizationYears : {Int2Num(25)},
     propertyType : {"single-family", "condo", "townhouse"},
     heatingType : {"gas"},
     isFirstTimeBuyer : BOOLEAN]

\* arguments of direct getAffordabilityRating calls: with an income of 100
\* the ratio is the cost itself
RatingCosts ==
    {Int2Num(-5), Zero, Dec(2799, 2), Int2Num(28), Dec(2801, 2), Dec(3199, 2),
     Int2Num(32), Dec(3201, 2), Dec(3899, 2), Int2Num(39), Dec(3901, 2),
     Int2Num(100)}
RatingIncomes ==
    {Zero, Int2Num(25), Int2Num(50), Int2Num(100), Int2Num(200), Int2Num(1000)}

RawRequests ==
    [propertyValue : RawPropertyValues,
     downPayment : LimitDownPayments,
     interestRate : RawInterestRates,
     amortizationYears : RawAmortizationYears,
     propertyType : RawPropertyTypes,
     heatingType : RawHeatingTypes,
     isFirstTimeBuyer : BOOLEAN]
    \cup
    [propertyValue : CalcPropertyValues,
     downPayment : RawDownPayments,
     interestRate : CalcInterestRates,
     amortizationYears : CalcAmortizationYears,
     propertyType : {"single-family"},
     heatingType : CalcHeatingTypes,
     isFirstTimeBuyer : {FALSE}]

(***************************************************************************)
(* State                                                                   *)
(***************************************************************************)
VARIABLES
    winnipegData,   \* the module-level regional data of shared/mortgageCalculator
    mounted,        \* the form's mount effect has run
    formData,       \* useState: the form fields
    result,         \* useState: MortgageResult | null
    loading,        \* useState: boolean
    error,          \* useState: string | null
    calcArg,        \* the argument of the calculateMortgage call that produced result,
                    \* or the mark handleReset leaves
    request,        \* the JSON body of the API request being handled
    issues,         \* what the validator reported for it
    calc,           \* the locals of the calculateMortgage call serving it
    response,       \* the API response
    ratingCall,     \* the arguments of a getAffordabilityRating call
    rating,         \* what that call returned
    lastCall,       \* the latest direct calculateMortgage call: argument and result
    callCount,      \* the number of direct calculateMortgage calls so far
    winnipegDataState,  \* useState winnipegData of the fetch-based form
    marketFetch,    \* the promise of fetch("/api/winnipeg-data")
    inflight,       \* the calculation requests awaiting an outcome: the body sent and
                    \* what the API answers to it
    edits,          \* the number of input changes made in the fetch-based form
    httpRequest,    \* the request the server is routing: method and path
    distFiles,      \* the files that exist under ./dist
    routeStage,     \* the handler of the chain that runs next
    httpResponse    \* what the server answered

vars == <<winnipegData, mounted, formData, result, loading, error, calcArg,
          request, issues, calc, response, ratingCall, rating,
          lastCall, callCount, winnipegDataState, marketFetch, inflight, edits,
          httpRequest, distFiles, routeStage, httpResponse>>

formVars == <<mounted, formData, result, loading, error, calcArg>>
apiVars == <<request, issues, calc, response>>
ratingVars == <<ratingCall, rating>>
callVars == <<lastCall, callCount>>
fetchVars == <<winnipegDataState, marketFetch, inflight, edits>>
serverVars == <<httpRequest, distFiles, routeStage, httpResponse>>

Null == [null |-> TRUE]
ResetMark == [reset |-> TRUE]
NullError == "null"

InitialFormData ==
    [propertyValue |-> Int2Num(400000),
     downPayment |-> Int2Num(80000),
     interestRate |-> Dec(484, 2),
     amortizationYears |-> Int2Num(25),
     propertyType |-> "single-family",
     heatingType |-> "gas",
     isFirstTimeBuyer |-> FALSE]

FormInit ==
    /\ mounted = FALSE
    /\ formData = InitialFormData
    /\ result = Null
    /\ loading = FALSE
    /\ error = NullError
    /\ calcArg = Null

ApiIdle ==
    /\ request = Null
    /\ issues = Null
    /\ calc = Null
    /\ response = Null

RatingIdle ==
    /\ ratingCall = Null
    /\ rating = Null

CallIdle ==
    /\ lastCall = Null
    /\ callCount = 0

FetchIdle ==
    /\ winnipegDataState = Null
    /\ marketFetch = [status |-> "idle"]
    /\ inflight = <<>>
    /\ edits = 0

ServerIdle ==
    /\ httpRequest = Null
    /\ distFiles = {}
    /\ routeStage = "idle"
    /\ httpResponse = Null

(***************************************************************************)
(* The MortgageCalculator component (the version that calls                *)
(* calculateMortgage directly)                                             *)
(***************************************************************************)
\* useEffect(..., []): the initial interest rate comes from winnipegData
MountEffect ==
    /\ ~mounted
    /\ mounted' = TRUE
    /\ formData' = [formData EXCEPT
                       !.interestRate = winnipegData.currentInterestRates.fixed5Year]
    /\ UNCHANGED <<winnipegData, result, loading, error, calcArg, apiVars, ratingVars, callVars, fetchVars, serverVars>>

\* faulty variant: a change of the interest rate is also written into the
\* regional data as the new five-year benchmark
HandleInputChangeWritesBenchmark(field, value) ==
    /\ mounted
    /\ formData' = [formData EXCEPT ![field] = value]
    /\ winnipegData' =
           IF field = "interestRate"
           THEN [winnipegData EXCEPT !.currentInterestRates.fixed5Year = value]
           ELSE winnipegData
    /\ UNCHANGED <<mounted, result, loading, error, calcArg, apiVars, ratingVars, callVars, fetchVars, serverVars>>

HandleInputChange(field, value) ==
    /\ mounted
    /\ formData' = [formData EXCEPT ![field] = value]
    /\ UNCHANGED <<winnipegData, mounted, result, loading, error, calcArg, apiVars, ratingVars, callVars, fetchVars, serverVars>>

\* the onChange handlers of the input boxes, selects and checkbox
ChangePropertyValue ==
    \E t \in PropertyValueTexts : HandleInputChange("propertyValue", OrZero(ParseInt(t)))

ChangeDownPayment ==
    \E t \in DownPaymentTexts : HandleInputChange("downPayment", OrZero(ParseInt(t)))

ChangeInterestRate ==
    \E t \in InterestRateTexts : HandleInputChange("interestRate", OrZero(ParseFloat(t)))

ChangeAmortizationYears ==
    \E t \in AmortizationPicks : HandleInputChange("amortizationYears", ParseInt(t))

ChangePropertyType ==
    \E v \in PropertyTypePicks : HandleInputChange("propertyType", v)

ChangeHeatingType ==
    \E v \in HeatingTypePicks : HandleInputChange("heatingType", v)

ChangeFirstTimeBuyer ==
    \E b \in BOOLEAN : HandleInputChange("isFirstTimeBuyer", b)

\* a quick-select pill: two handleInputChange calls in one event
PresetClick ==
    \E i \in {j \in DOMAIN Presets : j <= MaxPreset} :
      LET p == Presets[i] IN
        /\ mounted
        /\ formData' = [formData EXCEPT !.propertyValue = Int2Num(p.value),
                                        !.downPayment = Int2Num(p.downPayment)]
        /\ UNCHANGED <<winnipegData, mounted, result, loading, error, calcArg, apiVars, ratingVars, callVars, fetchVars, serverVars>>

\* no statement of calculateMortgage throws for an object argument
CalculateMortgageThrows(data) == FALSE

HandleCalculateMortgage ==
    /\ mounted
    /\ ~loading
    /\ calcArg' = formData
    /\ IF CalculateMortgageThrows(formData)
       THEN /\ error' = "Failed to calculate mortgage. Please check your inputs."
            /\ UNCHANGED result
       ELSE /\ error' = NullError
            /\ result' = CalculateMortgage(formData, winnipegData)
    /\ loading' = FALSE
    /\ UNCHANGED <<winnipegData, mounted, formData, apiVars, ratingVars, callVars, fetchVars, serverVars>>

\* faulty variant: the displayed result survives the reset
HandleResetKeepsResult ==
    /\ mounted
    /\ formData' = [InitialFormData EXCEPT
                       !.interestRate = winnipegData.currentInterestRates.fixed5Year]
    /\ error' = NullError
    /\ loading' = FALSE
    /\ UNCHANGED <<winnipegData, mounted, result, calcArg, apiVars, ratingVars, callVars, fetchVars, serverVars>>

HandleReset ==
    /\ mounted
    /\ formData' = [InitialFormData EXCEPT
                       !.interestRate = winnipegData.currentInterestRates.fixed5Year]
    /\ result' = Null
    /\ error' = NullError
    /\ loading' = FALSE
    /\ calcArg' = ResetMark
    /\ UNCHANGED <<winnipegData, mounted, apiVars, ratingVars, callVars, fetchVars, serverVars>>

Init ==
    /\ winnipegData = WinnipegDataInit
    /\ FormInit
    /\ ApiIdle
    /\ RatingIdle
    /\ CallIdle
    /\ FetchIdle
    /\ ServerIdle

Next ==
    \/ MountEffect
    \/ ChangePropertyValue
    \/ ChangeDownPayment
    \/ ChangeInterestRate
    \/ ChangeAmortizationYears
    \/ ChangePropertyType
    \/ ChangeHeatingType
    \/ ChangeFirstTimeBuyer
    \/ PresetClick
    \/ HandleCalculateMortgage
    \/ HandleReset

Spec == Init /\ [][Next]_vars

(***************************************************************************)
(* The API: POST /api/calculate-mortgage validates the JSON body with      *)
(* MortgageCalculationSchema and answers with calculateMortgage's result   *)
(***************************************************************************)
ApiInit ==
    /\ winnipegData = WinnipegDataInit
    /\ FormInit
    /\ request \in RawRequests
    /\ issues = Null
    /\ calc = Null
    /\ response = Null
    /\ RatingIdle
    /\ CallIdle
    /\ FetchIdle
    /\ ServerIdle

\* the validator runs on the body
ApiValidate ==
    /\ issues = Null
    /\ issues' = [list |-> MortgageCalculationSchema(request)]
    /\ UNCHANGED <<winnipegData, formVars, ratingVars, callVars, request, calc, response, fetchVars, serverVars>>

\* a body with issues is answered with an error
ApiReject ==
    /\ issues # Null
    /\ response = Null
    /\ issues.list # <<>>
    /\ response' = [ok |-> FALSE, message |-> issues.list[1].message]
    /\ UNCHANGED <<winnipegData, formVars, ratingVars, callVars, request, issues, calc, fetchVars, serverVars>>

\* a body without issues is computed
ApiCalculate ==
    /\ issues # Null
    /\ response = Null
    /\ issues.list = <<>>
    /\ calc' = CalculateMortgageLocals(request, winnipegData)
    /\ response' = [ok |-> TRUE, body |-> calc'.result]
    /\ UNCHANGED <<winnipegData, formVars, ratingVars, callVars, request, issues, fetchVars, serverVars>>

ApiNext ==
    \/ ApiValidate
    \/ ApiReject
    \/ ApiCalculate

ApiSpec == ApiInit /\ [][ApiNext]_vars

(***************************************************************************)
(* calculateMortgage called directly, several times in one process         *)
(***************************************************************************)
CallInit ==
    /\ winnipegData = WinnipegDataInit
    /\ FormInit
    /\ ApiIdle
    /\ RatingIdle
    /\ CallIdle
    /\ FetchIdle
    /\ ServerIdle

\* faulty variant: the warnings array outlives the call and keeps the
\* warnings of the earlier calls
CallAccumulating(data) ==
    /\ callCount < MaxCalls
    /\ lastCall' =
           [arg |-> data,
            ret |-> [CalculateMortgage(data, winnipegData) EXCEPT
                        !.warnings = (IF lastCall = Null THEN <<>>
                                      ELSE lastCall.ret.warnings) \o @]]
    /\ callCount' = callCount + 1
    /\ UNCHANGED <<winnipegData, formVars, apiVars, ratingVars, fetchVars, serverVars>>

\* one call of calculateMortgage(data): its locals, the warnings array among
\* them, are created by the call; it reads the module-level winnipegData
Call(data) ==
    /\ callCount < MaxCalls
    /\ lastCall' = [arg |-> data, ret |-> CalculateMortgage(data, winnipegData)]
    /\ callCount' = callCount + 1
    /\ UNCHANGED <<winnipegData, formVars, apiVars, ratingVars, fetchVars, serverVars>>

CallNext == \E data \in CallInputs : Call(data)

CallSpec == CallInit /\ [][CallNext]_vars

(***************************************************************************)
(* getAffordabilityRating called on its own                                *)
(***************************************************************************)
RatingInit ==
    /\ winnipegData = WinnipegDataInit
    /\ FormInit
    /\ ApiIdle
    /\ ratingCall \in [totalMonthlyCost : RatingCosts, assumedIncome : RatingIncomes]
    /\ rating = Null
    /\ CallIdle
    /\ FetchIdle
    /\ ServerIdle

RateAffordability ==
    /\ rating = Null
    /\ rating' = [value |-> GetAffordabilityRating(ratingCall.totalMonthlyCost,
                                                   ratingCall.assumedIncome)]
    /\ UNCHANGED <<winnipegData, formVars, apiVars, callVars, ratingCall, fetchVars, serverVars>>

RatingNext == RateAffordability

RatingSpec == RatingInit /\ [][RatingNext]_vars

(***************************************************************************)
(* The MortgageCalculator component (the version that fetches from the     *)
(* API): the market data is fetched on mount, and every calculation is a   *)
(* POST whose outcome arrives later                                        *)
(***************************************************************************)
\* the user changes at most MaxEdits inputs of the fetch-based form
MaxEdits == 2

\* what the user types and picks in the fetch-based form
FetchPropertyValueTexts == {Empty}
FetchDownPaymentTexts == {Empty}
FetchInterestRateTexts == {Empty, Text(Dec(55, 1))}
FetchAmortizationPicks == {Text(Int2Num(15))}
FetchPropertyTypePicks == {"condo"}
FetchHeatingTypePicks == {"electric"}

\* the message of the error a failed fetch() rejects with
FetchFailures == {"Failed to fetch"}

\* what POST /api/calculate-mortgage answers to a body
ApiRespond(body, wd) ==
    LET list == MortgageCalculationSchema(body)
    IN  IF list = <<>>
        THEN [ok |-> TRUE, body |-> CalculateMortgage(body, wd)]
        ELSE [ok |-> FALSE, message |-> list[1].message]

\* a sequence without its i-th element
Without(seq, i) == SubSeq(seq, 1, i - 1) \o SubSeq(seq, i + 1, Len(seq))

FetchInit ==
    /\ winnipegData = WinnipegDataInit
    /\ FormInit
    /\ ApiIdle
    /\ RatingIdle
    /\ CallIdle
    /\ winnipegDataState = Null
    /\ marketFetch = [status |-> "idle"]
    /\ edits = 0
    /\ inflight = <<>>
    /\ ServerIdle

\* useEffect(..., []): the request for the market data is sent
FetchMountEffect ==
    /\ ~mounted
    /\ mounted' = TRUE
    /\ marketFetch' = [status |-> "pending"]
    /\ UNCHANGED <<winnipegData, formData, result, loading, error, calcArg,
                   winnipegDataState, inflight, edits,
                   apiVars, ratingVars, callVars, serverVars>>

\* faulty variant: the whole form is put back to its initial values with the
\* benchmark rate
WinnipegDataArrivesResetsForm ==
    /\ marketFetch.status = "pending"
    /\ winnipegDataState' = winnipegData
    /\ formData' = [InitialFormData EXCEPT
                       !.interestRate = winnipegData.currentInterestRates.fixed5Year]
    /\ marketFetch' = [status |-> "done", replaced |-> formData.interestRate]
    /\ UNCHANGED <<winnipegData, mounted, result, loading, error, calcArg, inflight, edits,
                   apiVars, ratingVars, callVars, serverVars>>

\* .then(data => ...): the market data has arrived; the server answers with
\* its winnipegData
WinnipegDataArrives ==
    /\ marketFetch.status = "pending"
    /\ winnipegDataState' = winnipegData
    /\ formData' = [formData EXCEPT
                       !.interestRate = winnipegData.currentInterestRates.fixed5Year]
    /\ marketFetch' = [status |-> "done", replaced |-> formData.interestRate]
    /\ UNCHANGED <<winnipegData, mounted, result, loading, error, calcArg, inflight, edits,
                   apiVars, ratingVars, callVars, serverVars>>

\* .catch(() => ...): the request for the market data has failed
WinnipegDataFails ==
    /\ marketFetch.status = "pending"
    /\ error' = "Failed to load current market data"
    /\ marketFetch' = [status |-> "failed"]
    /\ UNCHANGED <<winnipegData, mounted, formData, result, loading, calcArg,
                   winnipegDataState, inflight, edits,
                   apiVars, ratingVars, callVars, serverVars>>

FetchHandleInputChange(field, value) ==
    /\ mounted
    /\ edits < MaxEdits
    /\ formData' = [formData EXCEPT ![field] = value]
    /\ edits' = edits + 1
    /\ UNCHANGED <<winnipegData, mounted, result, loading, error, calcArg,
                   winnipegDataState, marketFetch, inflight,
                   apiVars, ratingVars, callVars, serverVars>>

\* the onChange handlers of the input boxes, selects and checkbox
FetchChangePropertyValue ==
    \E t \in FetchPropertyValueTexts :
        FetchHandleInputChange("propertyValue", OrZero(ParseInt(t)))

FetchChangeDownPayment ==
    \E t \in FetchDownPaymentTexts :
        FetchHandleInputChange("downPayment", OrZero(ParseInt(t)))

FetchChangeInterestRate ==
    \E t \in FetchInterestRateTexts :
        FetchHandleInputChange("interestRate", OrZero(ParseFloat(t)))

FetchChangeAmortizationYears ==
    \E t \in FetchAmortizationPicks :
        FetchHandleInputChange("amortizationYears", ParseInt(t))

FetchChangePropertyType ==
    \E v \in FetchPropertyTypePicks : FetchHandleInputChange("propertyType", v)

FetchChangeHeatingType ==
    \E v \in FetchHeatingTypePicks : FetchHandleInputChange("heatingType", v)

FetchChangeFirstTimeBuyer ==
    \E b \in BOOLEAN : FetchHandleInputChange("isFirstTimeBuyer", b)

\* a quick-select pill: two handleInputChange calls in one event
FetchPresetClick ==
    \E i \in {j \in DOMAIN Presets : j <= MaxPreset} :
      LET p == Presets[i] IN
        /\ mounted
        /\ edits < MaxEdits
        /\ formData' = [formData EXCEPT !.propertyValue = Int2Num(p.value),
                                        !.downPayment = Int2Num(p.downPayment)]
        /\ edits' = edits + 1
        /\ UNCHANGED <<winnipegData, mounted, result, loading, error, calcArg,
                       winnipegDataState, marketFetch, inflight,
                       apiVars, ratingVars, callVars, serverVars>>

\* faulty variant: the Calculate button stays enabled while loading
CalculateClickAlwaysEnabled ==
    /\ mounted
    /\ Len(inflight) < 2
    /\ loading' = TRUE
    /\ error' = NullError
    /\ inflight' = Append(inflight, [body |-> formData,
                                   answer |-> ApiRespond(formData, winnipegData)])
    /\ UNCHANGED <<winnipegData, mounted, formData, result, calcArg,
                   winnipegDataState, marketFetch, edits,
                   apiVars, ratingVars, callVars, serverVars>>

\* a click on the Calculate button, which is disabled while loading:
\* calculateMortgage() up to its first await; the request carries the answer
\* the API gives to its body
CalculateClick ==
    /\ mounted
    /\ ~loading
    /\ loading' = TRUE
    /\ error' = NullError
    /\ inflight' = Append(inflight, [body |-> formData,
                                   answer |-> ApiRespond(formData, winnipegData)])
    /\ UNCHANGED <<winnipegData, mounted, formData, result, calcArg,
                   winnipegDataState, marketFetch, edits,
                   apiVars, ratingVars, callVars, serverVars>>

\* faulty variant: a failed calculation also clears the result
CalculationRejectedClearsResult ==
    \E i \in DOMAIN inflight :
      LET res == inflight[i].answer IN
        /\ ~res.ok
        /\ error' = res.message
        /\ result' = Null
        /\ calcArg' = Null
        /\ loading' = FALSE
        /\ inflight' = Without(inflight, i)
        /\ UNCHANGED <<winnipegData, mounted, formData,
                       winnipegDataState, marketFetch, edits,
                       apiVars, ratingVars, callVars, serverVars>>

\* the response is OK: setResult, then finally
CalculationSucceeds ==
    \E i \in DOMAIN inflight :
      LET res == inflight[i].answer IN
        /\ res.ok
        /\ result' = res.body
        /\ calcArg' = inflight[i].body
        /\ loading' = FALSE
        /\ inflight' = Without(inflight, i)
        /\ UNCHANGED <<winnipegData, mounted, formData, error,
                       winnipegDataState, marketFetch, edits,
                       apiVars, ratingVars, callVars, serverVars>>

\* the response is not OK: throw new Error(responseData.message || ...),
\* catch, finally
CalculationRejected ==
    \E i \in DOMAIN inflight :
      LET res == inflight[i].answer IN
        /\ ~res.ok
        /\ error' = (IF res.message # "" THEN res.message ELSE "Calculation failed")
        /\ loading' = FALSE
        /\ inflight' = Without(inflight, i)
        /\ UNCHANGED <<winnipegData, mounted, formData, result, calcArg,
                       winnipegDataState, marketFetch, edits,
                       apiVars, ratingVars, callVars, serverVars>>

\* fetch() or response.json() throws: catch, finally
CalculationThrows ==
    \E i \in DOMAIN inflight :
      \E message \in FetchFailures :
        /\ error' = message
        /\ loading' = FALSE
        /\ inflight' = Without(inflight, i)
        /\ UNCHANGED <<winnipegData, mounted, formData, result, calcArg,
                       winnipegDataState, marketFetch, edits,
                       apiVars, ratingVars, callVars, serverVars>>

\* every outcome a calculation request can have
CalculationSettles ==
    \/ CalculationSucceeds
    \/ CalculationRejected
    \/ CalculationThrows

FetchNext ==
    \/ FetchMountEffect
    \/ WinnipegDataArrives
    \/ WinnipegDataFails
    \/ FetchChangePropertyValue
    \/ FetchChangeDownPayment
    \/ FetchChangeInterestRate
    \/ FetchChangeAmortizationYears
    \/ FetchChangePropertyType
    \/ FetchChangeHeatingType
    \/ FetchChangeFirstTimeBuyer
    \/ FetchPresetClick
    \/ CalculateClick
    \/ CalculationSucceeds
    \/ CalculationRejected
    \/ CalculationThrows

FetchSpec == FetchInit /\ [][FetchNext]_vars

\* every request the browser sends has an outcome
FetchLiveSpec == FetchSpec /\ WF_vars(CalculationSettles)

(***************************************************************************)
(* server.ts: the Hono application.  The handlers whose route matches the  *)
(* request run in the order they were registered; each one answers or      *)
(* passes the request on.  Paths are sequences of segments.                *)
(***************************************************************************)
Methods == {"GET", "POST"}

\* the routes of the API application mounted under /api
ApiRoutes ==
    {[method |-> "POST", path |-> <<"api", "calculate-mortgage">>],
     [method |-> "GET", path |-> <<"api", "winnipeg-data">>]}

\* the paths requested, and the files a build may have put under ./dist
HttpPaths ==
    {<<>>, <<"index.html">>, <<"about">>, <<"apiary">>, <<"assets", "index.js">>,
     <<"assets">>, <<"api">>, <<"api", "calculate-mortgage">>,
     <<"api", "winnipeg-data">>, <<"api", "unknown">>}
DistCandidates == {<<"index.html">>, <<"assets", "index.js">>, <<"api", "unknown">>}

UnderApi(path) == Len(path) >= 1 /\ path[1] = "api"

IndexHtml == <<"index.html">>
\* the 404 text (its back quotes around the command are left out)
FrontendNotFound == "Frontend not found. Please run npm run build"

\* a directory exists under ./dist when a file lies below it
IsDirectory(path, files) ==
    \E f \in files : Len(f) > Len(path) /\ SubSeq(f, 1, Len(path)) = path

\* serveStatic({ root: './dist' }): the file the path names, or the
\* index.html of the directory it names, or nothing (Null)
StaticFile(path, files) ==
    IF path \in files THEN [file |-> path]
    ELSE IF IsDirectory(path, files) /\ Append(path, "index.html") \in files
         THEN [file |-> Append(path, "index.html")]
         ELSE Null

ServerInit ==
    /\ winnipegData = WinnipegDataInit
    /\ FormInit
    /\ ApiIdle
    /\ RatingIdle
    /\ CallIdle
    /\ FetchIdle
    /\ httpRequest \in [method : Methods, path : HttpPaths]
    /\ distFiles \in SUBSET DistCandidates
    /\ routeStage = "api"
    /\ httpResponse = Null

\* app.route('/api', api): a route of the API application that matches the
\* request answers it; otherwise the request goes on
RouteApi ==
    /\ routeStage = "api"
    /\ IF httpRequest \in ApiRoutes
       THEN /\ httpResponse' = [by |-> "api", status |-> 200,
                              body |-> [route |-> httpRequest.path]]
            /\ routeStage' = "done"
       ELSE /\ routeStage' = "static"
            /\ UNCHANGED httpResponse
    /\ UNCHANGED <<winnipegData, formVars, apiVars, ratingVars, callVars, fetchVars,
                   httpRequest, distFiles>>

\* app.use('*', serveStatic({ root: './dist' }))
ServeStatic ==
    /\ routeStage = "static"
    /\ LET file == StaticFile(httpRequest.path, distFiles) IN
         IF file # Null
         THEN /\ httpResponse' = [by |-> "static", status |-> 200, body |-> file]
              /\ routeStage' = "done"
         ELSE /\ routeStage' = "fallback"
              /\ UNCHANGED httpResponse
    /\ UNCHANGED <<winnipegData, formVars, apiVars, ratingVars, callVars, fetchVars,
                   httpRequest, distFiles>>

\* app.get('*', ...): index.html when it exists, a 404 text otherwise
SpaFallback ==
    /\ routeStage = "fallback"
    /\ httpRequest.method = "GET"
    /\ httpResponse' =
           IF IndexHtml \in distFiles
           THEN [by |-> "fallback", status |-> 200, body |-> [file |-> IndexHtml]]
           ELSE [by |-> "fallback", status |-> 404,
                 body |-> [text |-> FrontendNotFound]]
    /\ routeStage' = "done"
    /\ UNCHANGED <<winnipegData, formVars, apiVars, ratingVars, callVars, fetchVars,
                   httpRequest, distFiles>>

\* no handler is left for a request of another method: Hono answers 404
NotFound ==
    /\ routeStage = "fallback"
    /\ httpRequest.method # "GET"
    /\ httpResponse' = [by |-> "notFound", status |-> 404,
                         body |-> [text |-> "404 Not Found"]]
    /\ routeStage' = "done"
    /\ UNCHANGED <<winnipegData, formVars, apiVars, ratingVars, callVars, fetchVars,
                   httpRequest, distFiles>>

ServerNext ==
    \/ RouteApi
    \/ ServeStatic
    \/ SpaFallback
    \/ NotFound

ServerSpec == ServerInit /\ [][ServerNext]_vars

(***************************************************************************)
(* Properties                                                              *)
(***************************************************************************)
HasIssue(list, path) == \E i \in DOMAIN list : list[i].path = path

\* the constraints a calculation request has to satisfy
SatisfiesConstraints(data) ==
    /\ Gt(data.propertyValue, Zero)
    /\ Ge(data.downPayment, Zero)
    /\ Le(data.downPayment, data.propertyValue)
    /\ Ge(data.interestRate, Dec(1, 1))
    /\ Le(data.interestRate, Int2Num(20))
    /\ IsInteger(data.amortizationYears)
    /\ Ge(data.amortizationYears, Int2Num(1))
    /\ Le(data.amortizationYears, Int2Num(35))
    /\ data.propertyType \in PropertyTypes
    /\ data.heatingType \in HeatingTypes

NumericFields ==
    {"monthlyPayment", "principalAmount", "totalInterest", "monthlyPropertyTax",
     "monthlyInsurance", "monthlyUtilities", "totalMonthlyCost",
     "downPaymentPercent", "cmhcInsurance"}

AllFinite(r) == \A f \in NumericFields : IsFinite(r[f])

\* C1: validation always precedes computation: whenever the form holds a
\* result, the request it was computed from satisfies every constraint of the
\* validator (a request violating one never yields a result).
C1_ValidationPrecedesComputation ==
    result # Null => SatisfiesConstraints(calcArg)

\* C2: the validator rejects every request whose downPayment is greater than
\* its propertyValue.
C2_DownPaymentAbovePropertyValueRejected ==
    (issues # Null /\ Gt(request.downPayment, request.propertyValue))
        => issues.list # <<>>

\* C3: for every result the computation produces, principalAmount is
\* propertyValue - downPayment and is not negative, and neither are
\* totalLoanAmount, monthlyPayment and cmhcInsurance.
C3_PrincipalNonNegative ==
    calc # Null =>
        /\ calc.principalAmount = Sub(request.propertyValue, request.downPayment)
        /\ Ge(calc.principalAmount, Zero)
        /\ Ge(calc.result.principalAmount, Zero)
        /\ Ge(calc.totalLoanAmount, Zero)
        /\ Ge(calc.monthlyPayment, Zero)
        /\ Ge(calc.cmhcInsurance, Zero)

\* C4: when the interest rate is 0 the result has monthlyPayment =
\* totalLoanAmount / n and totalInterest = 0, and no result field is NaN or
\* infinite (the form turns an empty interest-rate box into a rate of 0).
C4_ZeroRateSpecialCased ==
    (result # Null /\ calcArg.interestRate = Zero) =>
        LET total == Add(Sub(calcArg.propertyValue, calcArg.downPayment),
                         CalculateCMHCInsurance(calcArg.propertyValue, calcArg.downPayment))
            n == Mul(calcArg.amortizationYears, Int2Num(12))
        IN  /\ AllFinite(result)
            /\ result.monthlyPayment = Round2(Div(total, n))
            /\ result.totalInterest = Zero

\* C5: the validator reports a property-value issue exactly when
\* propertyValue <= 0; every positive propertyValue is accepted.
C5_PropertyValueRejectedIffNotPositive ==
    issues # Null =>
        (HasIssue(issues.list, "propertyValue") <=> Le(request.propertyValue, Zero))

\* whole dollars and hundredths of a request field, as integers
Dollars(x) == ToInt(x)

\* a request whose amounts are whole dollars below a million, which integer
\* arithmetic can follow exactly
WholeDollars(data) ==
    /\ IsInteger(data.propertyValue)
    /\ IsInteger(data.downPayment)
    /\ Lt(data.propertyValue, Int2Num(1000000))
    /\ Lt(data.downPayment, Int2Num(1000000))
Hundredths(x) == ToInt(Mul(x, Int2Num(100)))

\* C6: the validator reports an issue for downPayment exactly when it is
\* negative, for interestRate exactly when it is outside [0.1, 20], for
\* amortizationYears exactly when it is outside [1, 35] or not an integer, and
\* for propertyType / heatingType exactly when the value is not in the
\* enumeration; the boundary values 0.1, 20, 1, 35 and downPayment = 0 pass.
C6_RangeChecks ==
    issues # Null =>
        /\ HasIssue(issues.list, "downPayment") <=> Hundredths(request.downPayment) < 0
        /\ HasIssue(issues.list, "interestRate") <=>
               (Hundredths(request.interestRate) < 10
                \/ Hundredths(request.interestRate) > 2000)
        /\ HasIssue(issues.list, "amortizationYears") <=>
               (Hundredths(request.amortizationYears) % 100 # 0
                \/ Hundredths(request.amortizationYears) < 100
                \/ Hundredths(request.amortizationYears) > 3500)
        /\ HasIssue(issues.list, "propertyType") <=>
               request.propertyType \notin
                   {"single-family", "condo", "townhouse", "multi-family"}
        /\ HasIssue(issues.list, "heatingType") <=>
               request.heatingType \notin {"gas", "electric", "oil", "geothermal"}
        /\ request.interestRate \in {Dec(1, 1), Int2Num(20)}
               => ~HasIssue(issues.list, "interestRate")
        /\ request.amortizationYears \in {Int2Num(1), Int2Num(35)}
               => ~HasIssue(issues.list, "amortizationYears")
        /\ request.downPayment = Zero => ~HasIssue(issues.list, "downPayment")

\* a request rejected for its down payment, rate, term and both enumerations
C6_Witness ==
    /\ issues # Null
    /\ request.downPayment = Int2Num(-1)
    /\ request.interestRate = Dec(2001, 2)
    /\ request.amortizationYears = Dec(15, 1)
    /\ request.propertyType = "bungalow"
    /\ request.heatingType = "coal"
    /\ Len(issues.list) >= 5
    /\ response # Null
    /\ ~response.ok

\* the premium rate, in tenths of a percent, of the tier the down payment
\* falls in, by exact integer comparison of downPayment * 100 with the tier's
\* lower bound times propertyValue
TierRateTenths(pv, dp) ==
    IF dp * 100 >= 20 * pv THEN 0
    ELSE IF dp * 100 >= 15 * pv THEN 28
    ELSE IF dp * 100 >= 10 * pv THEN 31
    ELSE IF dp * 100 >= 5 * pv THEN 40
    ELSE 45

\* C7: the insurance premium is (propertyValue - downPayment) * rate / 100 with
\* the rate of the lower-bound-inclusive tier of the down-payment percentage:
\* 0 from 20%, 2.8 from 15%, 3.1 from 10%, 4.0 from 5%, 4.5 below 5%.
C7_PremiumTiers ==
    (calc # Null /\ WholeDollars(request)) =>
        LET pv == Dollars(request.propertyValue)
            dp == Dollars(request.downPayment)
        IN  calc.cmhcInsurance = Dec((pv - dp) * TierRateTenths(pv, dp), 3)

\* exactly 5% down has been computed: the 4.0% tier, a premium of 15,200
C7_Witness ==
    /\ calc # Null
    /\ request.propertyValue = Int2Num(400000)
    /\ request.downPayment = Int2Num(20000)
    /\ calc.cmhcInsurance = Int2Num(15200)

DownPaymentPercent(pv, dp) == Mul(Div(dp, pv), Int2Num(100))

\* C8: for a fixed propertyValue the premium rate and the premium amount do
\* not increase when the down payment is raised within [0, propertyValue].
C8_PremiumMonotone ==
    (calc # Null /\ Ge(request.downPayment, Zero)
     /\ Le(request.downPayment, request.propertyValue)) =>
        \A d2 \in RawDownPayments :
            (Ge(d2, request.downPayment) /\ Le(d2, request.propertyValue)) =>
                /\ Le(CalculateCMHCInsurance(request.propertyValue, d2),
                      calc.cmhcInsurance)
                /\ Le(PremiumRate(DownPaymentPercent(request.propertyValue, d2)),
                      PremiumRate(DownPaymentPercent(request.propertyValue,
                                                     request.downPayment)))

\* 10% down has been computed, and larger down payments exist to compare with
C8_Witness ==
    /\ calc # Null
    /\ request.propertyValue = Int2Num(400000)
    /\ request.downPayment = Int2Num(40000)
    /\ Gt(calc.cmhcInsurance, Zero)
    /\ \E d2 \in RawDownPayments :
           Gt(d2, request.downPayment) /\ Lt(d2, request.propertyValue)

AbsNum(x) == IF Lt(x, Zero) THEN Neg(x) ELSE x

\* C9: the amount amortized is principalAmount + insurancePremium, the
\* payment count is amortizationYears * 12, the monthly rate is
\* interestRate / 100 / 12, totalInterest is monthlyPayment * n -
\* totalLoanAmount, and monthlyPayment * n equals totalLoanAmount +
\* totalInterest (to less than a cent).
C9_AmortizedAmount ==
    calc # Null =>
        /\ calc.totalLoanAmount =
               Add(Sub(request.propertyValue, request.downPayment), calc.cmhcInsurance)
        /\ calc.monthlyPayment =
               MonthlyPayment(calc.totalLoanAmount, calc.monthlyRate, calc.numPayments)
        /\ calc.numPayments = Int2Num(Dollars(request.amortizationYears) * 12)
        /\ calc.monthlyRate = Div(Div(request.interestRate, Int2Num(100)), Int2Num(12))
        /\ calc.totalInterest =
               Sub(Mul(calc.monthlyPayment, calc.numPayments), calc.totalLoanAmount)
        /\ WholeDollars(request) =>
               Lt(AbsNum(Sub(Mul(calc.monthlyPayment, calc.numPayments),
                             Add(calc.totalLoanAmount, calc.totalInterest))),
                  Dec(1, 2))

\* a loan with a financed premium has been computed
C9_Witness ==
    /\ calc # Null
    /\ request.propertyValue = Int2Num(400000)
    /\ request.downPayment = Int2Num(20000)
    /\ request.amortizationYears = Int2Num(25)
    /\ calc.totalLoanAmount = Int2Num(395200)
    /\ calc.numPayments = Int2Num(300)
    /\ IsFinite(calc.totalInterest)
    /\ Gt(calc.totalInterest, Zero)

\* C10: the warnings are, in this order, the CMHC warning iff the down payment
\* is below 20%, the lenders warning iff it is below 5%, and the market-rate
\* warning iff interestRate is strictly above the fixed5Year benchmark + 1; the
\* list is empty exactly when neither holds, and at 3.75% down both
\* down-payment warnings are present.
C10_Warnings ==
    (calc # Null /\ WholeDollars(request)) =>
        LET pv == Dollars(request.propertyValue)
            dp == Dollars(request.downPayment)
            rate == Hundredths(request.interestRate)
            benchmark == Hundredths(winnipegData.currentInterestRates.fixed5Year)
            w == calc.result.warnings
        IN  /\ w = (IF dp * 100 < 20 * pv THEN <<WarnCMHC>> ELSE <<>>)
                   \o (IF dp * 100 < 5 * pv THEN <<WarnLenders>> ELSE <<>>)
                   \o (IF rate > benchmark + 100 THEN <<WarnRate>> ELSE <<>>)
            /\ w = <<>> <=> (dp * 100 >= 20 * pv /\ rate <= benchmark + 100)
            /\ (pv = 400000 /\ dp = 15000) =>
                   (Len(w) >= 2 /\ w[1] = WarnCMHC /\ w[2] = WarnLenders)

\* 3.75% down at a rate above the benchmark + 1: all three warnings, in order
C10_Witness ==
    /\ calc # Null
    /\ request.propertyValue = Int2Num(400000)
    /\ request.downPayment = Int2Num(15000)
    /\ request.interestRate = Dec(585, 2)
    /\ calc.result.warnings = <<WarnCMHC, WarnLenders, WarnRate>>

\* the 5%-down scenario: 20,000 down on 400,000 at 4.84% over 25 years, gas
FivePercentScenario ==
    /\ calc # Null
    /\ request.propertyValue = Int2Num(400000)
    /\ request.downPayment = Int2Num(20000)
    /\ request.interestRate = Dec(484, 2)
    /\ request.amortizationYears = Int2Num(25)
    /\ request.heatingType = "gas"

InSeq(x, seq) == \E i \in DOMAIN seq : seq[i] = x

\* C11 as stated: in the 5%-down scenario the 4.0% tier applies, the result
\* carries two warnings, the CMHC warning is present and the lenders warning
\* is absent.
C11_TwoWarnings ==
    FivePercentScenario =>
        /\ calc.cmhcInsurance = Int2Num(15200)
        /\ Len(calc.result.warnings) = 2
        /\ InSeq(WarnCMHC, calc.result.warnings)
        /\ ~InSeq(WarnLenders, calc.result.warnings)

\* C11: in the 5%-down scenario the 4.0% tier applies (premium 380,000 * 4 /
\* 100 = 15,200) and the result carries exactly one warning, the CMHC
\* warning: exactly 5% is not below 5%, and 4.84 is not above the benchmark
\* + 1, so neither the lenders nor the market-rate warning is present.
C11_OneWarning ==
    FivePercentScenario =>
        /\ calc.cmhcInsurance = Int2Num(15200)
        /\ calc.result.cmhcInsurance = Int2Num(15200)
        /\ calc.result.warnings = <<WarnCMHC>>
        /\ ~InSeq(WarnLenders, calc.result.warnings)
        /\ ~InSeq(WarnRate, calc.result.warnings)

\* the 5%-down scenario has been computed and answered
C11_Witness ==
    /\ FivePercentScenario
    /\ response # Null
    /\ response.ok
    /\ Len(response.body.warnings) = 1
    /\ response.body.downPaymentPercent = Int2Num(5)

\* the ratio getAffordabilityRating computes for a total monthly cost
AffordabilityRatio(totalMonthlyCost, assumedIncome) ==
    Mul(Div(totalMonthlyCost, assumedIncome), Int2Num(100))

\* C12: for every valid request the affordability rating is "good": the
\* assumed income is totalMonthlyCost / 0.32, the ratio totalMonthlyCost /
\* assumedIncome * 100 is exactly 32, and no valid request is rated
\* "excellent", "fair" or "poor".
C12_RatingAlwaysGood ==
    (calc # Null /\ SatisfiesConstraints(request)) =>
        /\ calc.assumedMonthlyIncome = Div(calc.totalMonthlyCost, Dec(32, 2))
        /\ AffordabilityRatio(calc.totalMonthlyCost, calc.assumedMonthlyIncome)
               = Int2Num(32)
        /\ calc.result.affordabilityRating = "good"

UtilityDollars == [gas |-> 180, electric |-> 120, oil |-> 220, geothermal |-> 80]

\* C14: monthly property tax is propertyValue * taxRate / 100 / 12, monthly
\* insurance is propertyValue * insuranceRate / 100 / 12, monthly utilities
\* is the regional table entry of the request's heatingType (gas 180, electric
\* 120, oil 220, geothermal 80), and totalMonthlyCost is the sum of the
\* unrounded monthly payment and these three amounts. For whole-dollar
\* property values the reported tax and insurance are pv * 2.35 / 1200 and
\* pv * 0.3 / 1200 rounded to the cent, computed in integers.
C14_MonthlyCosts ==
    calc # Null =>
        /\ calc.monthlyPropertyTax =
               Div(Div(Mul(request.propertyValue, Dec(235, 2)), Int2Num(100)),
                   Int2Num(12))
        /\ calc.monthlyInsurance =
               Div(Div(Mul(request.propertyValue, Dec(3, 1)), Int2Num(100)),
                   Int2Num(12))
        /\ calc.monthlyUtilities = Int2Num(UtilityDollars[request.heatingType])
        /\ calc.totalMonthlyCost =
               Add(Add(Add(calc.monthlyPayment, calc.monthlyPropertyTax),
                       calc.monthlyInsurance), calc.monthlyUtilities)
        /\ WholeDollars(request) =>
               /\ Hundredths(calc.result.monthlyPropertyTax) =
                      (Dollars(request.propertyValue) * 235 + 600) \div 1200
               /\ Hundredths(calc.result.monthlyInsurance) =
                      (Dollars(request.propertyValue) * 30 + 600) \div 1200

\* a 400,000 home heated with oil has been computed: 783.33 tax, 100
\* insurance, 220 utilities, and a total above their sum
C14_Witness ==
    /\ calc # Null
    /\ request.propertyValue = Int2Num(400000)
    /\ request.heatingType = "oil"
    /\ calc.result.monthlyPropertyTax = Dec(78333, 2)
    /\ calc.result.monthlyInsurance = Int2Num(100)
    /\ calc.monthlyUtilities = Int2Num(220)
    /\ Gt(calc.totalMonthlyCost, Dec(110333, 2))

\* C15: determinism with no hidden state: after any sequence of earlier
\* calculateMortgage calls, a call returns what a first call with the same
\* input returns (every numeric field, the rating and the warnings); warnings
\* do not accumulate from one call to the next.
C15_Deterministic ==
    lastCall # Null =>
        /\ lastCall.ret = CalculateMortgage(lastCall.arg, WinnipegDataInit)
        /\ Len(lastCall.ret.warnings) <= 3
        /\ \A i, j \in DOMAIN lastCall.ret.warnings :
               lastCall.ret.warnings[i] = lastCall.ret.warnings[j] => i = j

\* a third call, with two warnings, after two earlier calls
C15_Witness ==
    /\ callCount = 3
    /\ lastCall.arg.downPayment = Int2Num(20000)
    /\ lastCall.arg.interestRate = Dec(585, 2)
    /\ lastCall.ret.warnings = <<WarnCMHC, WarnRate>>

\* C16: non-interference of the inert fields: requests that differ only in
\* propertyType and/or isFirstTimeBuyer get results equal in every field.
C16_InertFields ==
    lastCall # Null =>
        \A pt \in PropertyTypes, b \in BOOLEAN :
            CalculateMortgage([lastCall.arg EXCEPT !.propertyType = pt,
                                                   !.isFirstTimeBuyer = b],
                              winnipegData) = lastCall.ret

\* a first-time buyer of a condo with an insured loan has been computed
C16_Witness ==
    /\ lastCall # Null
    /\ lastCall.arg.propertyType = "condo"
    /\ lastCall.arg.isFirstTimeBuyer
    /\ lastCall.arg.downPayment = Int2Num(20000)
    /\ lastCall.ret.cmhcInsurance = Int2Num(15200)

\* C17: the regional market data is never modified: in every reachable state
\* of the form (after its mount effect, input changes, calculations and
\* resets) winnipegData holds its initial values: tax rate 2.35, insurance
\* rate 0.3, benchmarks 5.24 / 4.84 / 5.95 and the utility table.
C17_WinnipegDataReadOnly ==
    /\ winnipegData = WinnipegDataInit
    /\ winnipegData.averagePropertyTaxRate = Dec(235, 2)
    /\ winnipegData.averageInsuranceRate = Dec(3, 1)
    /\ winnipegData.currentInterestRates =
           [fixed1Year |-> Dec(524, 2), fixed5Year |-> Dec(484, 2),
            variable |-> Dec(595, 2)]
    /\ winnipegData.utilityEstimates =
           [gas |-> Int2Num(180), electric |-> Int2Num(120), oil |-> Int2Num(220),
            geothermal |-> Int2Num(80)]

\* the form has been mounted, its rate and heating type changed and a
\* calculation made from the changed fields
C17_Witness ==
    /\ mounted
    /\ result # Null
    /\ calcArg.interestRate = Zero
    /\ calcArg.heatingType = "electric"
    /\ formData = calcArg
    /\ winnipegData = WinnipegDataInit

\* C18: every computation step is total over the validated domain: for every
\* request the validator admits, the amortization denominator (1 + r)^n - 1
\* and propertyValue are not 0, calculateMortgage does not throw, and every
\* numeric field of its result is a finite number.
C18_TotalOnValidatedDomain ==
    calc # Null =>
        /\ request.propertyValue # Zero
        /\ Sub(MathPow(Add(Int2Num(1), calc.monthlyRate), calc.numPayments),
               Int2Num(1)) # Zero
        /\ ~CalculateMortgageThrows(request)
        /\ AllFinite(calc.result)

\* a finite amount in cents, rounded to the nearest cent with ties towards
\* +Infinity, computed on the mantissa in integers
Cents(x) ==
    IF x.e >= -2 THEN x.m * Pow10(x.e + 2)
    ELSE IF x.e < -10 THEN 0
    ELSE LET p == Pow10(-x.e - 2) IN (x.m + p \div 2) \div p

\* every amount of the call is finite and below ten million, so that its
\* cents fit integer arithmetic
CentsFit(c) ==
    \A f \in NumericFields :
        IsFinite(c[f]) /\ Lt(AbsNum(c[f]), Int2Num(10000000))

\* C19: every reported amount is the unrounded local of calculateMortgage
\* rounded once to two decimals, ties up; the locals feed the later steps
\* unrounded: totalInterest and totalMonthlyCost are computed from the
\* unrounded monthlyPayment and the warnings from the unrounded percentage
\* (19,999 down on 400,000 is reported as 5 percent and still gets the
\* below-5% warning); a principal of 1.125 is reported as 1.13.
C19_RoundedOnce ==
    (calc # Null /\ CentsFit(calc)) =>
        /\ \A f \in NumericFields : Hundredths(calc.result[f]) = Cents(calc[f])
        /\ calc.totalInterest =
               Sub(Mul(calc.monthlyPayment, calc.numPayments), calc.totalLoanAmount)
        /\ calc.totalMonthlyCost =
               Add(Add(Add(calc.monthlyPayment, calc.monthlyPropertyTax),
                       calc.monthlyInsurance), calc.monthlyUtilities)
        /\ calc.downPaymentPercent =
               Mul(Div(request.downPayment, request.propertyValue), Int2Num(100))
        /\ (request.propertyValue = Int2Num(400000)
            /\ request.downPayment = Int2Num(19999)) =>
               /\ calc.result.downPaymentPercent = Int2Num(5)
               /\ InSeq(WarnLenders, calc.result.warnings)
        /\ (request.propertyValue = Dec(1125, 3) /\ request.downPayment = Zero) =>
               calc.result.principalAmount = Dec(113, 2)

\* a principal of 1.125, half a cent above 1.12, has been reported as 1.13,
\* with a payment that is not a whole number of cents before rounding
C19_Witness ==
    /\ calc # Null
    /\ request.propertyValue = Dec(1125, 3)
    /\ request.downPayment = Zero
    /\ calc.principalAmount = Dec(1125, 3)
    /\ calc.result.principalAmount = Dec(113, 2)
    /\ calc.monthlyPayment # calc.result.monthlyPayment

\* the boundary scenario: 80,000 down on 400,000 at 4.84% over 25 years
BoundaryScenario ==
    /\ calc # Null
    /\ request.propertyValue = Int2Num(400000)
    /\ request.downPayment = Int2Num(80000)
    /\ request.interestRate = Dec(484, 2)
    /\ request.amortizationYears = Int2Num(25)

\* C20 as stated: in the boundary scenario the reported monthlyPayment is
\* approximately 2,148.65 (here: within a dollar of it).
C20_PaymentAbout2148 ==
    BoundaryScenario =>
        Le(AbsNum(Sub(calc.result.monthlyPayment, Dec(214865, 2))), Int2Num(1))

\* C20: in the boundary scenario the principal is 320,000, there is no
\* premium, there are 300 payments, and the reported monthlyPayment is
\* approximately 1,840.98 (within a cent of it).
C20_PaymentAbout1841 ==
    BoundaryScenario =>
        /\ calc.principalAmount = Int2Num(320000)
        /\ calc.cmhcInsurance = Zero
        /\ calc.totalLoanAmount = Int2Num(320000)
        /\ calc.numPayments = Int2Num(300)
        /\ Le(AbsNum(Sub(calc.result.monthlyPayment, Dec(184098, 2))), Dec(1, 2))

\* the boundary scenario has been computed and answered without warnings
C20_Witness ==
    /\ BoundaryScenario
    /\ response # Null
    /\ response.ok
    /\ response.body.warnings = <<>>
    /\ Gt(response.body.monthlyPayment, Int2Num(1840))

\* C21: in the fetch-based form at most one calculation request is
\* outstanding at any time, loading is true exactly while one is outstanding
\* (it is set before the request is sent and cleared by every outcome), and
\* the form never stays in the loading state.
C21_OneOutstanding ==
    /\ [](Len(inflight) <= 1)
    /\ [](loading <=> inflight # <<>>)
    /\ (loading ~> ~loading)

\* a second calculation is outstanding while the result of the first one is
\* displayed
C21_Witness ==
    /\ loading
    /\ Len(inflight) = 1
    /\ result # Null
    /\ error = NullError

\* C22: the arrival of the market data sets formData.interestRate to the
\* fixed5Year benchmark (4.84), whatever the user typed before, and leaves
\* every other form field as it was.
C22_ArrivalSetsOnlyRate ==
    [][(marketFetch.status = "pending" /\ marketFetch'.status = "done") =>
          /\ winnipegDataState' # Null
          /\ winnipegDataState'.currentInterestRates.fixed5Year = Dec(484, 2)
          /\ formData' = [formData EXCEPT !.interestRate = Dec(484, 2)]]_vars

\* the user typed 5.5 and picked electric heating while the request was
\* pending; the arrival replaced the 5.5 by 4.84
C22_Witness ==
    /\ marketFetch.status = "done"
    /\ marketFetch.replaced = Dec(55, 1)
    /\ formData.interestRate = Dec(484, 2)
    /\ formData.heatingType = "electric"
    /\ edits = 2

\* C23: a failed calculation sets error and leaves result unchanged; starting
\* a calculation clears error; after a successful calculation error is null
\* and result is the response.
C23_ErrorThenResult ==
    [][/\ (CalculationRejected \/ CalculationThrows) =>
              (error' # NullError /\ result' = result)
       /\ CalculateClick => error' = NullError
       /\ CalculationSucceeds =>
              /\ error' = NullError
              /\ result' = CalculateMortgage(Head(inflight).body, WinnipegDataInit)]_vars

\* C24: Reset returns the form to its initial state from every reachable
\* state: the seven fields have their initial values, the interest rate being
\* the fixed5Year benchmark, result and error are null and loading is false;
\* a Reset of a form in that state changes nothing.
C24_ResetRestores ==
    [][HandleReset =>
          /\ formData' = [propertyValue |-> Int2Num(400000),
                          downPayment |-> Int2Num(80000),
                          interestRate |-> winnipegData.currentInterestRates.fixed5Year,
                          amortizationYears |-> Int2Num(25),
                          propertyType |-> "single-family",
                          heatingType |-> "gas",
                          isFirstTimeBuyer |-> FALSE]
          /\ result' = Null
          /\ error' = NullError
          /\ loading' = FALSE
          /\ (/\ formData = [InitialFormData EXCEPT !.interestRate = Dec(484, 2)]
              /\ result = Null
              /\ error = NullError
              /\ ~loading)
                 => UNCHANGED <<formData, result, error, loading>>]_vars

\* the form has been reset and is in its initial state
C24_Witness ==
    /\ mounted
    /\ calcArg = ResetMark
    /\ formData = [InitialFormData EXCEPT !.interestRate = Dec(484, 2)]
    /\ result = Null
    /\ error = NullError
    /\ ~loading

\* DonutChart: total = data.reduce((acc, item) => acc + item.value, 0)
RECURSIVE Reduce(_, _)
Reduce(acc, values) ==
    IF values = <<>> THEN acc
    ELSE Reduce(Add(acc, Head(values)), Tail(values))

DonutChartTotal(values) == Reduce(Zero, values)

\* the values the form hands to the donut chart
DonutChartData(res) ==
    <<res.monthlyPayment, res.monthlyPropertyTax, res.monthlyInsurance,
      res.monthlyUtilities>>

\* C25: for every valid request with a finite result, the reported
\* totalMonthlyCost and the donut chart's total of the four reported
\* components are the same amount (they differ by less than half a cent).
C25_TotalIsSumOfParts ==
    (response # Null /\ response.ok /\ AllFinite(response.body)) =>
        Lt(AbsNum(Sub(response.body.totalMonthlyCost,
                      DonutChartTotal(DonutChartData(response.body)))),
           Dec(5, 3))

\* C26: for every valid request with downPayment <= propertyValue the
\* 'requires CMHC insurance' warning is in the result exactly when the
\* reported cmhcInsurance is greater than 0.
C26_WarningIffPremium ==
    (/\ response # Null
     /\ response.ok
     /\ Le(request.downPayment, request.propertyValue)) =>
        (InSeq(WarnCMHC, response.body.warnings)
             <=> Gt(response.body.cmhcInsurance, Zero))

\* the smallest property value the validator admits, with nothing down: the
\* warning is present and the premium of a few cents is reported
C26_Witness ==
    /\ response # Null
    /\ response.ok
    /\ request.propertyValue = Int2Num(1)
    /\ request.downPayment = Zero
    /\ InSeq(WarnCMHC, response.body.warnings)
    /\ Gt(response.body.cmhcInsurance, Zero)
    /\ Lt(response.body.cmhcInsurance, Dec(1, 1))

\* C27: the warning list of every result has at most three entries, no entry
\* twice, and the 'may not be accepted by all lenders' warning only directly
\* after the 'requires CMHC insurance' warning.
C27_WarningList ==
    (response # Null /\ response.ok) =>
        LET w == response.body.warnings IN
            /\ Len(w) <= 3
            /\ \A i, j \in DOMAIN w : i # j => w[i] # w[j]
            /\ \A i \in DOMAIN w :
                   w[i] = WarnLenders => (i > 1 /\ w[i - 1] = WarnCMHC)

\* all three warnings are present, in the order they were pushed
C27_Witness ==
    /\ response # Null
    /\ response.ok
    /\ response.body.warnings = <<WarnCMHC, WarnLenders, WarnRate>>

\* C28: for every valid request with downPayment <= propertyValue, the
\* locals of calculateMortgage satisfy totalInterest >= 0 and
\* monthlyPayment * n >= totalLoanAmount; monthlyPayment and totalInterest
\* are 0 exactly when downPayment = propertyValue, and totalMonthlyCost is
\* then still positive (it is at least the utility estimate of 80).
C28_InterestNonNegative ==
    (calc # Null /\ Le(request.downPayment, request.propertyValue)) =>
        /\ Ge(calc.totalInterest, Zero)
        /\ Ge(Mul(calc.monthlyPayment, calc.numPayments), calc.totalLoanAmount)
        /\ (calc.monthlyPayment = Zero /\ calc.totalInterest = Zero)
               <=> (request.downPayment = request.propertyValue)
        /\ (request.downPayment = request.propertyValue) =>
               /\ Ge(calc.totalMonthlyCost, Int2Num(80))
               /\ Gt(calc.result.totalMonthlyCost, Zero)

\* C29: the server resolves a request in a fixed priority order: a path under
\* /api is answered by the API routes; any other path never reaches them and
\* is answered with the static file of that name under dist when it exists;
\* otherwise a GET gets dist/index.html when it exists and the 404 text
\* 'Frontend not found' when it does not.
C29_RoutingPriority ==
    httpResponse # Null =>
        LET path == httpRequest.path IN
            /\ UnderApi(path) => httpResponse.by = "api"
            /\ ~UnderApi(path) => httpResponse.by # "api"
            /\ (~UnderApi(path) /\ path \in distFiles) =>
                   (httpResponse.by = "static" /\ httpResponse.body = [file |-> path])
            /\ (~UnderApi(path) /\ path \notin distFiles
                    /\ httpRequest.method = "GET") =>
                   IF IndexHtml \in distFiles
                   THEN /\ httpResponse.status = 200
                        /\ httpResponse.body = [file |-> IndexHtml]
                   ELSE /\ httpResponse.status = 404
                        /\ httpResponse.body = [text |-> FrontendNotFound]

====
